---- MODULE Spec2Model ----
(***************************************************************************)
(* A model of the text table component                                     *)
(* (src/src/tuine/component/base/text_table/mod.rs) and of the hit test of *)
(* src/src/app/widgets.rs.                                                 *)
(*                                                                         *)
(* A TextTable value is the tuple of variables columns .. on_selected_click*)
(* (the render-only fields key, style_sheet and show_selected_entry are    *)
(* left out: nothing but the styling of the frame reads them).  `state` is *)
(* the table's ScrollState kept by the state context, `messages` the       *)
(* caller's message queue, `status` what the last call returned and `call` *)
(* the last call with its arguments.  `component_bounds` is the bounding   *)
(* box a Component of src/src/app/widgets.rs keeps.                        *)
(***************************************************************************)
EXTENDS Integers, Sequences, FiniteSets, TLC

VARIABLES columns, column_widths, show_gap, rows, sortable, table_gap,
          on_select, on_selected_click, state, messages, status, call,
          component_bounds

vars == <<columns, column_widths, show_gap, rows, sortable, table_gap,
          on_select, on_selected_click, state, messages, status, call,
          component_bounds>>

table == <<columns, column_widths, show_gap, rows, sortable, table_gap,
           on_select, on_selected_click>>

(***************************************************************************)
(* Bounds of the model.                                                    *)
(***************************************************************************)
MaxCols == 3
MaxWidth == 6
MaxSortRows == 2
MaxSortCol == 2
MaxCoord == 4
MaxSide == 2
MaxRows == 2
MaxMouseRow == 4
MaxMessages == 2

\* crate::constants::TABLE_GAP_HEIGHT_LIMIT
TABLE_GAP_HEIGHT_LIMIT == 7

\* u16 arithmetic: 2^16.
U16 == 65536

Min(a, b) == IF a <= b THEN a ELSE b

Max(a, b) == IF a >= b THEN a ELSE b

RECURSIVE SumSeq(_)
SumSeq(s) == IF s = <<>> THEN 0 ELSE Head(s) + SumSeq(Tail(s))

\* u16 operations as a release build computes them (wrapping).
Mul16(a, b) == (a * b) % U16

Sub16(a, b) == (a - b) % U16

Add16(a, b) == (a + b) % U16

(***************************************************************************)
(* Rectangles (tui::layout::Rect) and the calls the model records.         *)
(***************************************************************************)
Rect(x, y, width, height) == [x |-> x, y |-> y, width |-> width, height |-> height]

NoRect == Rect(0, 0, 0, 0)

NoEvent == [type |-> "None", kind |-> "None", column |-> 0, row |-> 0, modifiers |-> FALSE]

Call(op, rect, event, arg) == [op |-> op, rect |-> rect, event |-> event, arg |-> arg]

NoCall == Call("new", NoRect, NoEvent, <<>>)

(***************************************************************************)
(* Columns.  A column is its name (only its grapheme count matters) and    *)
(* its width constraint.                                                   *)
(***************************************************************************)
Column(kind, arg, name_len) == [kind |-> kind, arg |-> arg, name_len |-> name_len]

\* The columns the width resolver is run on: every constraint, with names of
\* zero and two graphemes.
ColumnChoices ==
    {Column("Fill", 0, n) : n \in {0, 2}}
    \cup {Column("Length", a, 1) : a \in {0, 2, 5}}
    \cup {Column("Percentage", p, 1) : p \in {33, 50, 100}}
    \cup {Column("MaxLength", 0, 2), Column("MaxLength", 2, 0), Column("MaxLength", 2, 2)}
    \cup {Column("MaxPercentage", p, 2) : p \in {33, 50, 100}}

SeqsUpTo(S, n) == UNION {[1..k -> S] : k \in 0..n}

\* Widths of a terminal, and two widths whose product with a percentage
\* leaves 16 bits.
Widths == (0..MaxWidth) \cup {656, 65535}

\* column.name.graphemes(true).count().saturating_add(1) as u16
Desired(column) == (column.name_len + 1) % U16

IsPercent(column) == column.kind \in {"Percentage", "MaxPercentage"}

\* total_width * percentage does not fit in a u16.
MulOverflows(column, total_width) ==
    IsPercent(column) /\ total_width * column.arg >= U16

\* The width of each constraint without the cap of the remaining budget.
ColumnWidthNoCap(column, total_width, width_remaining) ==
    CASE column.kind = "Fill" -> Desired(column)
      [] column.kind = "Length" -> column.arg
      [] column.kind = "Percentage" -> Mul16(total_width, column.arg) \div 100
      [] column.kind = "MaxLength" -> Min(column.arg, Desired(column))
      [] column.kind = "MaxPercentage" ->
            Min(Desired(column), Mul16(total_width, column.arg) \div 100)

\* The closure of the map in update_column_widths, without its subtraction.
ColumnWidth(column, total_width, width_remaining) ==
    CASE column.kind = "Fill" -> Min(Desired(column), width_remaining)
      [] column.kind = "Length" -> Min(column.arg, width_remaining)
      [] column.kind = "Percentage" ->
            Min(Mul16(total_width, column.arg) \div 100, width_remaining)
      [] column.kind = "MaxLength" ->
            Min(Min(column.arg, Desired(column)), width_remaining)
      [] column.kind = "MaxPercentage" ->
            Min(Min(Desired(column), Mul16(total_width, column.arg) \div 100),
                width_remaining)

\* The left-to-right pass of the map: each width is subtracted from the budget.
RECURSIVE BaseWidths(_, _, _)
BaseWidths(cols, total_width, width_remaining) ==
    IF cols = <<>>
    THEN [widths |-> <<>>, width_remaining |-> width_remaining]
    ELSE LET width == ColumnWidth(Head(cols), total_width, width_remaining)
             rest == BaseWidths(Tail(cols), total_width, Sub16(width_remaining, width))
         IN [widths |-> <<width>> \o rest.widths,
             width_remaining |-> rest.width_remaining]

\* The leftover handed out with the comparison of the index inverted.
DistributeLeftoverInverted(widths, width_remaining) ==
    IF widths = <<>>
    THEN widths
    ELSE LET amount_per_slot == width_remaining \div Len(widths)
             remainder == width_remaining % Len(widths)
         IN [i \in 1..Len(widths) |->
                IF (i - 1) >= remainder
                THEN Add16(widths[i], amount_per_slot + 1)
                ELSE Add16(widths[i], amount_per_slot)]

\* The leftover handed out with the extra units going to the last columns.
DistributeLeftoverTrailing(widths, width_remaining) ==
    IF widths = <<>>
    THEN widths
    ELSE LET amount_per_slot == width_remaining \div Len(widths)
             remainder == width_remaining % Len(widths)
         IN [i \in 1..Len(widths) |->
                IF Len(widths) - i < remainder
                THEN Add16(widths[i], amount_per_slot + 1)
                ELSE Add16(widths[i], amount_per_slot)]

\* The leftover handed out without its remainder.
DistributeLeftoverNoRemainder(widths, width_remaining) ==
    IF widths = <<>>
    THEN widths
    ELSE LET amount_per_slot == width_remaining \div Len(widths)
         IN [i \in 1..Len(widths) |-> Add16(widths[i], amount_per_slot)]

\* The second half of update_column_widths (indices are 1-based here).
DistributeLeftover(widths, width_remaining) ==
    IF widths = <<>>
    THEN widths
    ELSE LET amount_per_slot == width_remaining \div Len(widths)
             remainder == width_remaining % Len(widths)
         IN [i \in 1..Len(widths) |->
                IF (i - 1) < remainder
                THEN Add16(widths[i], amount_per_slot + 1)
                ELSE Add16(widths[i], amount_per_slot)]

\* The widths update_column_widths stores for these columns and this width.
ResolvedWidths(cols, total_width) ==
    LET base == BaseWidths(cols, total_width, total_width)
    IN DistributeLeftover(base.widths, base.width_remaining)

\* A build with overflow checks aborts on the product of a percentage column.
WidthsOverflow(cols, total_width) ==
    \E i \in 1..Len(cols) : MulOverflows(cols[i], total_width)

(***************************************************************************)
(* update_column_widths(bounds) on its own.                                *)
(***************************************************************************)
UpdateColumnWidths(bounds) ==
    /\ status # "Panic"
    /\ call' = Call("update_column_widths", bounds, NoEvent, <<>>)
    /\ \/ /\ WidthsOverflow(columns, bounds.width)
          /\ status' = "Panic"
          /\ UNCHANGED column_widths
       \/ /\ column_widths' = ResolvedWidths(columns, bounds.width)
          /\ status' = "Returned"
    /\ UNCHANGED <<columns, show_gap, rows, sortable, table_gap, on_select,
                   on_selected_click, state, messages, component_bounds>>

SortStatusUnsortable == [is |-> FALSE, column |-> 0]

SortStatusSortable(column) == [is |-> TRUE, column |-> column]

NoState == [num_items |-> 0, current_index |-> 0, start |-> 0]

\* TextTable::new with the columns given; the state context is fresh.
New(cols) ==
    /\ columns = cols
    /\ column_widths = [i \in 1..Len(cols) |-> 0]
    /\ show_gap = TRUE
    /\ rows = <<>>
    /\ sortable = SortStatusUnsortable
    /\ table_gap = 0
    /\ on_select = FALSE
    /\ on_selected_click = FALSE
    /\ state = NoState
    /\ messages = <<>>
    /\ status = "None"
    /\ call = NoCall
    /\ component_bounds = NoRect

(***************************************************************************)
(* Rows and sorting.  A row is its cells; `id` is the position the row had *)
(* in the list passed to rows(), kept to tell equal rows apart.            *)
(***************************************************************************)
WithIds(cell_rows) == [i \in 1..Len(cell_rows) |-> [id |-> i, cells |-> cell_rows[i]]]

\* DataRow::get(column), column counted from 0: is there such a cell?
HasCell(row, column) == column < Len(row.cells)

Get(row, column) == row.cells[column + 1]

\* DataCell's Ord.
CellCmp(a, b) == IF a < b THEN "Less" ELSE IF a > b THEN "Greater" ELSE "Equal"

\* The closure given to sort_by in try_sort_data.
Compare(a, b, column) ==
    CASE HasCell(a, column) /\ HasCell(b, column) -> CellCmp(Get(a, column), Get(b, column))
      [] HasCell(a, column) /\ ~HasCell(b, column) -> "Greater"
      [] ~HasCell(a, column) /\ HasCell(b, column) -> "Less"
      [] OTHER -> "Equal"

\* An insertion that puts a row before the rows it compares equal to.
SortInsertBeforeEqual(sorted, row, column) ==
    LET after == {k \in 1..Len(sorted) : Compare(sorted[k], row, column) # "Less"}
        at == IF after = {} THEN Len(sorted) + 1
              ELSE CHOOSE k \in after : \A m \in after : k <= m
    IN SubSeq(sorted, 1, at - 1) \o <<row>> \o SubSeq(sorted, at, Len(sorted))

\* slice::sort_by is stable: a row goes after every row not greater than it.
SortInsert(sorted, row, column) ==
    LET after == {k \in 1..Len(sorted) : Compare(sorted[k], row, column) = "Greater"}
        at == IF after = {} THEN Len(sorted) + 1
              ELSE CHOOSE k \in after : \A m \in after : k <= m
    IN SubSeq(sorted, 1, at - 1) \o <<row>> \o SubSeq(sorted, at, Len(sorted))

RECURSIVE SortBy(_, _)
SortBy(rs, column) ==
    IF rs = <<>> THEN <<>>
    ELSE SortInsert(SortBy(SubSeq(rs, 1, Len(rs) - 1), column), rs[Len(rs)], column)

TrySortData(rs, sort_status) ==
    IF sort_status.is THEN SortBy(rs, sort_status.column) ELSE rs

(***************************************************************************)
(* The builder calls.                                                      *)
(***************************************************************************)
\* The builder calls take the value: they come before it is drawn or sent events.
Building == status \in {"None", "Built"}

Rows(new_rows) ==
    /\ Building
    /\ rows' = TrySortData(new_rows, sortable)
    /\ call' = Call("rows", NoRect, NoEvent, new_rows)
    /\ status' = "Built"
    /\ UNCHANGED <<columns, column_widths, show_gap, sortable, table_gap,
                   on_select, on_selected_click, state, messages, component_bounds>>

ShowGap(new_show_gap) ==
    /\ Building
    /\ show_gap' = new_show_gap
    /\ call' = Call("show_gap", NoRect, NoEvent, <<>>)
    /\ status' = "Built"
    /\ UNCHANGED <<columns, column_widths, rows, sortable, table_gap,
                   on_select, on_selected_click, state, messages, component_bounds>>

Sortable(new_sortable) ==
    /\ Building
    /\ sortable' = IF new_sortable THEN SortStatusSortable(0) ELSE SortStatusUnsortable
    /\ rows' = TrySortData(rows, sortable')
    /\ call' = Call("sortable", NoRect, NoEvent, <<>>)
    /\ status' = "Built"
    /\ UNCHANGED <<columns, column_widths, show_gap, table_gap,
                   on_select, on_selected_click, state, messages, component_bounds>>

SortColumn(column) ==
    /\ Building
    /\ sortable' = SortStatusSortable(column)
    /\ rows' = TrySortData(rows, sortable')
    /\ call' = Call("sort_column", NoRect, NoEvent, <<>>)
    /\ status' = "Built"
    /\ UNCHANGED <<columns, column_widths, show_gap, table_gap,
                   on_select, on_selected_click, state, messages, component_bounds>>

OnSelect(callback) ==
    /\ Building
    /\ on_select' = callback
    /\ call' = Call("on_select", NoRect, NoEvent, <<>>)
    /\ status' = "Built"
    /\ UNCHANGED <<columns, column_widths, show_gap, rows, sortable, table_gap,
                   on_selected_click, state, messages, component_bounds>>

OnSelectedClick(callback) ==
    /\ Building
    /\ on_selected_click' = callback
    /\ call' = Call("on_selected_click", NoRect, NoEvent, <<>>)
    /\ status' = "Built"
    /\ UNCHANGED <<columns, column_widths, show_gap, rows, sortable, table_gap,
                   on_select, state, messages, component_bounds>>

(***************************************************************************)
(* Hit testing (src/src/app/widgets.rs).                                   *)
(***************************************************************************)
Left(bounds) == bounds.x

Right(bounds) == bounds.x + bounds.width

Top(bounds) == bounds.y

Bottom(bounds) == bounds.y + bounds.height

\* The test with both far edges taken as inside.
IntersectsClosed(x, y, bounds) ==
    x >= Left(bounds) /\ x <= Right(bounds) /\ y >= Top(bounds) /\ y <= Bottom(bounds)

does_bound_intersect_coordinate(x, y, bounds) ==
    x >= Left(bounds) /\ x < Right(bounds) /\ y >= Top(bounds) /\ y < Bottom(bounds)

DoesBoundIntersectCoordinate(x, y, bounds) ==
    /\ status # "Panic"
    /\ call' = Call("does_bound_intersect_coordinate", bounds,
                    [NoEvent EXCEPT !.column = x, !.row = y], <<>>)
    /\ status' = IF does_bound_intersect_coordinate(x, y, bounds) THEN "True" ELSE "False"
    /\ UNCHANGED <<table, state, messages, component_bounds>>

\* MouseBoundIntersect::does_mouse_intersect_bounds of crate::tuine.
DoesMouseIntersectBounds(event, rect) ==
    /\ event.column >= Left(rect) /\ event.column < Right(rect)
    /\ event.row >= Top(rect) /\ event.row < Bottom(rect)

(***************************************************************************)
(* The table's ScrollState (table_scroll_state), as the state context      *)
(* keeps it under the table's key.                                         *)
(***************************************************************************)
LastIndex(num_items) == Max(num_items - 1, 0)

\* set_num_items: the count is stored and the highlighted index kept valid.
SetNumItems(st, num_items) ==
    [st EXCEPT !.num_items = num_items,
               !.current_index = Min(st.current_index, LastIndex(num_items))]

CurrentIndex(st) == st.current_index

NumItems(st) == st.num_items

\* move_down / move_up: one row, clamped to the valid rows.
MoveDown(st, change_by) ==
    LET to == Min(st.current_index + change_by, LastIndex(st.num_items))
    IN [state |-> [st EXCEPT !.current_index = to],
        status |-> IF to = st.current_index THEN "Ignored" ELSE "Captured"]

MoveUp(st, change_by) ==
    LET to == Max(st.current_index - change_by, 0)
    IN [state |-> [st EXCEPT !.current_index = to],
        status |-> IF to = st.current_index THEN "Ignored" ELSE "Captured"]

\* set_visual_index: the row of the visible window becomes the highlighted row.
SetVisualIndex(st, visual_index) ==
    LET to == st.start + visual_index
    IN IF to < st.num_items
       THEN [state |-> [st EXCEPT !.current_index = to], status |-> "Captured"]
       ELSE [state |-> st, status |-> "Ignored"]

\* display_start_index: the window of `height` rows that shows the highlighted row.
DisplayStartIndex(st, height) ==
    LET moved == IF st.current_index < st.start THEN st.current_index
                 ELSE IF st.current_index >= st.start + height
                      THEN st.current_index - height + 1
                      ELSE st.start
    IN Max(Min(moved, st.num_items - height), 0)

(***************************************************************************)
(* draw                                                                    *)
(***************************************************************************)
\* The gap row, suppressed below the height limit whatever the row count.
TableGapByHeight(gap_shown, num_rows, height) ==
    IF ~gap_shown \/ height < TABLE_GAP_HEIGHT_LIMIT THEN 0 ELSE 1

TableGap(gap_shown, num_rows, height) ==
    IF ~gap_shown \/ (num_rows + 2 > height /\ height < TABLE_GAP_HEIGHT_LIMIT)
    THEN 0
    ELSE 1

\* A u16 subtraction that wraps.
WrappingSub(a, b) == Sub16(a, b)

SaturatingSub(a, b) == Max(a - b, 0)

\* self.rows.drain(start..end): the rows left in the table.
Drain(rs, start, end) == SubSeq(rs, 1, start) \o SubSeq(rs, end + 1, Len(rs))

\* draw with the window always taken from the first row.
DrawOutcomeFromTop(rect) ==
    LET counted == SetNumItems(state, Len(rows))
        gap == TableGap(show_gap, Len(rows), rect.height)
        scrollable_height == SaturatingSub(rect.height, 1 + gap)
        end == Min(NumItems(counted), scrollable_height)
    IN {[table_gap |-> gap, start |-> 0, end |-> end,
         state |-> [counted EXCEPT !.start = 0],
         column_widths |-> ResolvedWidths(columns, rect.width),
         rows |-> Drain(rows, 0, end), status |-> "Drawn"]}

\* What draw(rect) leaves: the gap, the state, the widths and the rows, or the
\* abort of a build with overflow checks and of a drain out of range.
DrawOutcome(rect) ==
    LET counted == SetNumItems(state, Len(rows))
        gap == TableGap(show_gap, Len(rows), rect.height)
        table_extras == 1 + gap
        scrollable_height == SaturatingSub(rect.height, table_extras)
        start == DisplayStartIndex(counted, scrollable_height)
        end == Min(NumItems(counted), start + scrollable_height)
        drawn == [table_gap |-> gap, start |-> start, end |-> end,
                  state |-> [counted EXCEPT !.start = start],
                  column_widths |-> ResolvedWidths(columns, rect.width),
                  rows |-> Drain(rows, start, end), status |-> "Drawn"]
        aborted == [drawn EXCEPT !.state = counted, !.column_widths = column_widths,
                                 !.rows = rows, !.status = "Panic"]
    IN IF start > end \/ end > Len(rows)
       THEN {aborted}
       ELSE IF WidthsOverflow(columns, rect.width) THEN {aborted, drawn} ELSE {drawn}

Draw(rect) ==
    /\ status # "Panic"
    /\ \E outcome \in DrawOutcome(rect) :
          /\ table_gap' = outcome.table_gap
          /\ state' = outcome.state
          /\ column_widths' = outcome.column_widths
          /\ rows' = outcome.rows
          /\ status' = outcome.status
    /\ call' = Call("draw", rect, NoEvent, <<>>)
    /\ UNCHANGED <<columns, show_gap, sortable, on_select, on_selected_click, messages,
                   component_bounds>>

(***************************************************************************)
(* on_event                                                                *)
(***************************************************************************)
KeyboardEvent(modifiers) ==
    [type |-> "Keyboard", kind |-> "Key", column |-> 0, row |-> 0, modifiers |-> modifiers]

MouseEvent(kind, column, row) ==
    [type |-> "Mouse", kind |-> kind, column |-> column, row |-> row, modifiers |-> FALSE]

\* The messages the callbacks build from an index.
OnSelectMessage(index) == [callback |-> "on_select", index |-> index]

OnSelectedClickMessage(index) == [callback |-> "on_selected_click", index |-> index]

Outcome(st, msgs, result) == [state |-> st, messages |-> msgs, status |-> result]

\* MouseEventKind::Down(MouseButton::Left)
MouseDownLeft(st, msgs, event, rect) ==
    LET y == Sub16(event.row, Top(rect))
    IN IF y = 0
       THEN IF sortable.is
            THEN Outcome(st, msgs, "Panic")
            ELSE Outcome(st, msgs, "Ignored")
       ELSE IF y > table_gap
            THEN LET set == SetVisualIndex(st, y - table_gap)
                 IN Outcome(set.state, msgs, set.status)
            ELSE Outcome(st, msgs, "Ignored")

\* A scroll that reports the index it started from.
MouseScrollStale(st, msgs, moved) ==
    Outcome(moved.state,
            IF on_select THEN Append(msgs, OnSelectMessage(CurrentIndex(st))) ELSE msgs,
            moved.status)

\* A scroll that puts its message at the head of the queue.
MouseScrollPrepend(st, msgs, moved) ==
    Outcome(moved.state,
            IF on_select THEN <<OnSelectMessage(CurrentIndex(moved.state))>> \o msgs ELSE msgs,
            moved.status)

\* MouseEventKind::ScrollDown and ::ScrollUp, `moved` being the state's move.
MouseScroll(st, msgs, moved) ==
    Outcome(moved.state,
            IF on_select THEN Append(msgs, OnSelectMessage(CurrentIndex(moved.state))) ELSE msgs,
            moved.status)

\* The match on the event without the test of the mouse against the bounds.
HandleAnywhere(st, msgs, event, rect) ==
    IF event.type = "Keyboard"
    THEN Outcome(st, msgs, "Ignored")
    ELSE CASE event.kind = "DownLeft" -> MouseDownLeft(st, msgs, event, rect)
           [] event.kind = "ScrollDown" -> MouseScroll(st, msgs, MoveDown(st, 1))
           [] event.kind = "ScrollUp" -> MouseScroll(st, msgs, MoveUp(st, 1))
           [] OTHER -> Outcome(st, msgs, "Ignored")

\* The match on the event in on_event.
Handle(st, msgs, event, rect) ==
    IF event.type = "Keyboard"
    THEN Outcome(st, msgs, "Ignored")
    ELSE IF DoesMouseIntersectBounds(event, rect)
         THEN CASE event.kind = "DownLeft" -> MouseDownLeft(st, msgs, event, rect)
                [] event.kind = "ScrollDown" -> MouseScroll(st, msgs, MoveDown(st, 1))
                [] event.kind = "ScrollUp" -> MouseScroll(st, msgs, MoveUp(st, 1))
                [] OTHER -> Outcome(st, msgs, "Ignored")
         ELSE Outcome(st, msgs, "Ignored")

\* What on_event(rect, event) leaves: the state, the queue and the status.
OnEventOutcome(rect, event) ==
    Handle(SetNumItems(state, Len(rows)), messages, event, rect)

OnEvent(rect, event) ==
    /\ status # "Panic"
    /\ Len(messages) < MaxMessages
    /\ call' = Call("on_event", rect, NoEvent, <<>>)
    /\ state' = OnEventOutcome(rect, event).state
    /\ messages' = OnEventOutcome(rect, event).messages
    /\ status' = OnEventOutcome(rect, event).status
    /\ UNCHANGED <<table, component_bounds>>

\* The view is built again: TextTable::new at the same place, so under the
\* same key and with the state kept.  The caller has taken the messages of
\* the events before it builds the view again.
Rebuild ==
    /\ status \notin {"Panic", "None"}
    /\ column_widths' = [i \in 1..Len(columns) |-> 0]
    /\ show_gap' = TRUE
    /\ rows' = <<>>
    /\ sortable' = SortStatusUnsortable
    /\ table_gap' = 0
    /\ on_select' = FALSE
    /\ on_selected_click' = FALSE
    /\ status' = "None"
    /\ call' = NoCall
    /\ messages' = <<>>
    /\ UNCHANGED <<columns, state, component_bounds>>

(***************************************************************************)
(* The bounds of a Component (src/src/app/widgets.rs).  bounds and         *)
(* set_bounds are the implementor's: it keeps the rectangle it is given.   *)
(***************************************************************************)
set_bounds(new_bounds) == new_bounds

\* A border kept apart from the bounds and never set.
border_bounds_apart == NoRect

\* The default border_bounds: self.bounds().
border_bounds == component_bounds

\* The default set_border_bounds: set_bounds.
set_border_bounds(new_bounds) == set_bounds(new_bounds)

SetBounds(new_bounds) ==
    /\ component_bounds' = set_bounds(new_bounds)
    /\ call' = Call("set_bounds", new_bounds, NoEvent, <<>>)
    /\ status' = "Returned"
    /\ UNCHANGED <<table, state, messages>>

SetBorderBounds(new_bounds) ==
    /\ component_bounds' = set_border_bounds(new_bounds)
    /\ call' = Call("set_border_bounds", new_bounds, NoEvent, <<>>)
    /\ status' = "Returned"
    /\ UNCHANGED <<table, state, messages>>

\* The getters: `call` keeps the rectangle they return.
Bounds ==
    /\ call' = Call("bounds", component_bounds, NoEvent, <<>>)
    /\ status' = "Returned"
    /\ UNCHANGED <<table, state, messages, component_bounds>>

BorderBounds ==
    /\ call' = Call("border_bounds", border_bounds, NoEvent, <<>>)
    /\ status' = "Returned"
    /\ UNCHANGED <<table, state, messages, component_bounds>>

InitWidths == \E cols \in SeqsUpTo(ColumnChoices, MaxCols) : New(cols)

NextWidths == \E w \in Widths : UpdateColumnWidths(Rect(0, 0, w, 0))

SpecWidths == InitWidths /\ [][NextWidths]_vars

(***************************************************************************)
(* The builder calls that sort, on rows of up to two cells.                *)
(***************************************************************************)
Cells == {0, 1}

CellRows == SeqsUpTo(Cells, 2)

SortRowLists == {WithIds(r) : r \in SeqsUpTo(CellRows, MaxSortRows)}

InitSort == New(<<Column("Fill", 0, 2), Column("Fill", 0, 2)>>)

NextSort ==
    \/ \E r \in SortRowLists : Rows(r)
    \/ \E b \in BOOLEAN : Sortable(b)
    \/ \E c \in 0..MaxSortCol : SortColumn(c)

SpecSort == InitSort /\ [][NextSort]_vars

(***************************************************************************)
(* The hit test on its own.                                                *)
(***************************************************************************)
HitRects ==
    {Rect(x, y, w, h) : x \in 0..1, y \in 0..1, w \in 0..MaxSide, h \in 0..MaxSide}

InitHit == New(<<Column("Fill", 0, 2)>>)

NextHit ==
    \E x \in 0..MaxCoord, y \in 0..MaxCoord, bounds \in HitRects :
        DoesBoundIntersectCoordinate(x, y, bounds)

SpecHit == InitHit /\ [][NextHit]_vars

(***************************************************************************)
(* The bounds of a component that overrides neither border_bounds nor      *)
(* set_border_bounds.                                                      *)
(***************************************************************************)
InitBounds == New(<<Column("Fill", 0, 2)>>)

NextBounds ==
    \/ \E new_bounds \in HitRects : SetBounds(new_bounds)
    \/ \E new_bounds \in HitRects : SetBorderBounds(new_bounds)
    \/ Bounds
    \/ BorderBounds

SpecBounds == InitBounds /\ [][NextBounds]_vars

(***************************************************************************)
(* The table as the application uses it: built, then drawn or sent events, *)
(* then built again.                                                       *)
(***************************************************************************)
\* Rows of one cell, in descending order of their cell.
DescendingRows(n) == WithIds([i \in 1..n |-> <<n - i>>])

RowLists == {DescendingRows(n) : n \in 0..MaxRows}

\* The table's place on the screen, at four heights.  The specification
\* keeps the rectangle of the last draw and on_event in `call`, not the event.
Rects == {Rect(1, 1, 4, h) : h \in {0, 2, 3, TABLE_GAP_HEIGHT_LIMIT}}

\* Key presses with and without modifiers, and mouse events in the table's
\* columns on every row, and left of the table on its header row.
MouseKinds == {"DownLeft", "DownRight", "ScrollDown", "ScrollUp"}

Events ==
    {KeyboardEvent(m) : m \in BOOLEAN}
    \cup {MouseEvent(k, 1, r) : k \in MouseKinds, r \in 0..MaxMouseRow}
    \cup {MouseEvent(k, 0, 1) : k \in MouseKinds}

Init == New(<<Column("Fill", 0, 2), Column("Percentage", 50, 1)>>)

Next ==
    \/ \E r \in RowLists : Rows(r)
    \/ \E b \in BOOLEAN : ShowGap(b)
    \/ \E b \in BOOLEAN : Sortable(b)
    \/ SortColumn(0)
    \/ \E f \in BOOLEAN : OnSelect(f)
    \/ \E f \in BOOLEAN : OnSelectedClick(f)
    \/ \E rect \in Rects : Draw(rect)
    \/ \E rect \in Rects, event \in Events : OnEvent(rect, event)
    \/ Rebuild

Spec == Init /\ [][Next]_vars

(***************************************************************************)
(* Claims about the width resolver, under SpecWidths.                      *)
(***************************************************************************)
WidthsResolved ==
    call.op = "update_column_widths" /\ status = "Returned"

PercentColumns == {i \in 1..Len(columns) : IsPercent(columns[i])}

GrowingColumns ==
    {i \in 1..Len(columns) : columns[i].kind \in {"Fill", "MaxLength", "MaxPercentage"}}

\* C1: with at least one column, the widths update_column_widths resolves
\* sum to the available width exactly, for every constraint combination and
\* every width.
C1_WidthsSumExactly ==
    (WidthsResolved /\ Len(columns) >= 1)
        => SumSeq(column_widths) = call.rect.width

\* C1 witness: three columns, a Fill and a Percentage among them, resolved at
\* width 5 with a leftover that had to be handed out.
C1_Witness ==
    /\ WidthsResolved
    /\ Len(columns) = 3
    /\ call.rect.width = 5
    /\ \E i, j \in 1..3 : columns[i].kind = "Fill" /\ columns[j].kind = "Percentage"
    /\ BaseWidths(columns, 5, 5).width_remaining = 2
    /\ SumSeq(column_widths) = 5

\* C2 as stated: for W1 <= W2 every Fill, MaxLength or MaxPercentage column is
\* at least as wide at W2 as at W1, whatever columns are in the list (taken
\* here only where no product leaves 16 bits).
C2_MonotoneAnyColumns ==
    (WidthsResolved /\ ~WidthsOverflow(columns, call.rect.width))
        => \A w1 \in Widths : w1 <= call.rect.width
              => \A i \in GrowingColumns :
                    ResolvedWidths(columns, w1)[i] <= column_widths[i]

\* C2 amended: the same, for lists with at most one Percentage or
\* MaxPercentage column whose product with the width fits in 16 bits.
C2_MonotoneOnePercent ==
    (/\ WidthsResolved
     /\ Cardinality(PercentColumns) <= 1
     /\ ~WidthsOverflow(columns, call.rect.width))
        => \A w1 \in Widths : w1 <= call.rect.width
              => \A i \in GrowingColumns :
                    ResolvedWidths(columns, w1)[i] <= column_widths[i]

\* C2 witness: a Fill column after a Percentage column, wider at width 6 than
\* it is at width 2.
C2_Witness ==
    /\ WidthsResolved
    /\ call.rect.width = 6
    /\ Len(columns) = 2
    /\ columns[1].kind = "Percentage"
    /\ columns[2].kind = "Fill"
    /\ ResolvedWidths(columns, 2)[2] < column_widths[2]

\* The base widths of the left-to-right pass for the last call.
Base == BaseWidths(columns, call.rect.width, call.rect.width)

\* The budget left for column i: the width less the base widths before it.
Budget(i) == call.rect.width - SumSeq(SubSeq(Base.widths, 1, i - 1))

\* C17: in the left-to-right pass each base width is at least 0 and at most
\* the budget left at that column, so the budget never goes below zero (the
\* 16-bit subtraction never wraps), and a column that finds the budget at zero
\* gets base width 0.
C17_BaseWidthWithinBudget ==
    WidthsResolved =>
        /\ \A i \in 1..Len(columns) :
              /\ 0 <= Base.widths[i]
              /\ Base.widths[i] <= Budget(i)
              /\ Budget(i) = 0 => Base.widths[i] = 0
        /\ Base.width_remaining = call.rect.width - SumSeq(Base.widths)
        /\ Base.width_remaining >= 0

\* C17 witness: Length(5) first in a list of three columns at width 2 takes
\* the whole budget and the columns after it get base width 0.
C17_Witness ==
    /\ WidthsResolved
    /\ call.rect.width = 2
    /\ Len(columns) = 3
    /\ columns[1] = Column("Length", 5, 1)
    /\ columns[2].kind = "Fill"
    /\ Base.widths = <<2, 0, 0>>

\* C18: with leftover L after the pass over k >= 1 columns, column i (counted
\* from 0) ends with its base width + floor(L / k) + (1 if i < L mod k, else
\* 0): the first L mod k columns, in declaration order, get the extra unit.
C18_LeftoverToLeadingColumns ==
    (WidthsResolved /\ Len(columns) >= 1) =>
        LET L == Base.width_remaining
            k == Len(columns)
        IN \A i \in 0..(k - 1) :
              column_widths[i + 1] =
                  Base.widths[i + 1] + (L \div k) + (IF i < L % k THEN 1 ELSE 0)

\* C18 witness: three Length(0) columns at width 5: the leftover of 5 gives
\* every column 1 and the first two columns one more.
C18_Witness ==
    /\ WidthsResolved
    /\ call.rect.width = 5
    /\ Len(columns) = 3
    /\ Base.widths = <<0, 0, 0>>
    /\ Base.width_remaining = 5
    /\ column_widths = <<2, 2, 1>>

\* C19: for every Percentage(p) or MaxPercentage(p) column with p <= 100 and
\* every 16-bit width, update_column_widths returns and the column's length,
\* before the cap of the budget, is floor(total_width * p / 100) (for
\* MaxPercentage, the smaller of that and the desired width): the product
\* total_width * p does not leave 16 bits.
C19_PercentageWithoutOverflow ==
    call.op = "update_column_widths" =>
        /\ status = "Returned"
        /\ \A i \in PercentColumns :
              columns[i].arg <= 100 =>
                  LET length == (call.rect.width * columns[i].arg) \div 100
                      resolved == ColumnWidth(columns[i], call.rect.width, call.rect.width)
                  IN resolved = IF columns[i].kind = "Percentage"
                                THEN length
                                ELSE Min(Desired(columns[i]), length)

(***************************************************************************)
(* Claims about sorting, under SpecSort.                                   *)
(***************************************************************************)
\* The position of a row in a list of rows with distinct ids.
Pos(rs, row) == CHOOSE k \in 1..Len(rs) : rs[k].id = row.id

IsSortedBy(rs, column) ==
    \A i, j \in 1..Len(rs) : i < j => Compare(rs[i], rs[j], column) # "Greater"

\* C3: on a table sortable on column c, every row without a cell at c stands
\* after every row with one, and two rows without it compare equal.
C3_MissingLast ==
    sortable.is =>
        \A i, j \in 1..Len(rows) :
            /\ (~HasCell(rows[i], sortable.column) /\ HasCell(rows[j], sortable.column))
                   => j < i
            /\ (~HasCell(rows[i], sortable.column) /\ ~HasCell(rows[j], sortable.column))
                   => Compare(rows[i], rows[j], sortable.column) = "Equal"

\* C4 as stated: after any builder calls that leave the table sortable on c,
\* the rows are non-decreasing in the column-c cell, rows that compare equal
\* stand in the order of the list last passed to rows(), and sorting again
\* changes nothing (taken here only where every row has both cells).
C4_TiesInRowsOrder ==
    (sortable.is /\ \A i \in 1..Len(rows) : Len(rows[i].cells) = 2) =>
        /\ IsSortedBy(rows, sortable.column)
        /\ \A i, j \in 1..Len(rows) :
              (i < j /\ Compare(rows[i], rows[j], sortable.column) = "Equal")
                  => rows[i].id < rows[j].id
        /\ SortBy(rows, sortable.column) = rows

\* The rows a builder call sorted: the list passed for rows(), the table's
\* rows before the call for sortable() and sort_column().
Unsorted == IF call'.op = "rows" THEN call'.arg ELSE rows

\* C4 amended: each builder call that leaves the table sortable on c leaves
\* the rows non-decreasing in the column-c cell, keeps rows that compare
\* equal in the order they had when that call sorted them, and sorting again
\* changes nothing.
C4_TiesInPreviousOrder ==
    [][sortable'.is =>
          /\ IsSortedBy(rows', sortable'.column)
          /\ \A i, j \in 1..Len(rows') :
                (i < j /\ Compare(rows'[i], rows'[j], sortable'.column) = "Equal")
                    => Pos(Unsorted, rows'[i]) < Pos(Unsorted, rows'[j])
          /\ SortBy(rows', sortable'.column) = rows']_vars

\* C4 witness: sort_column(1) after a sort on column 0 that had reordered two
\* rows with equal cells in column 1: they stay in the order that sort left.
C4_Witness ==
    /\ call.op = "sort_column"
    /\ sortable = SortStatusSortable(1)
    /\ \E i, j \in 1..Len(rows) :
          /\ i < j
          /\ HasCell(rows[i], 1)
          /\ Compare(rows[i], rows[j], 1) = "Equal"
          /\ Compare(rows[i], rows[j], 0) = "Less"
          /\ rows[i].id > rows[j].id

(***************************************************************************)
(* Claims about the hit test, under SpecHit.                               *)
(***************************************************************************)
HitTested == call.op = "does_bound_intersect_coordinate"

\* The cells of the screen a rectangle covers.
CellsOf(bounds) ==
    {<<cx, cy>> : cx \in bounds.x..(bounds.x + bounds.width - 1),
                  cy \in bounds.y..(bounds.y + bounds.height - 1)}

\* C5: does_bound_intersect_coordinate is true exactly for the points with
\* left <= x < right and top <= y < bottom: the left and top edges are inside,
\* the right and bottom edges are not, an empty rectangle holds no point.
C5_HalfOpen ==
    HitTested =>
        LET x == call.event.column
            y == call.event.row
            bounds == call.rect
        IN /\ (status = "True") <=> (<<x, y>> \in CellsOf(bounds))
           /\ (x = bounds.x + bounds.width \/ y = bounds.y + bounds.height)
                  => status = "False"
           /\ (x = bounds.x /\ y = bounds.y /\ bounds.width > 0 /\ bounds.height > 0)
                  => status = "True"
           /\ (bounds.width = 0 \/ bounds.height = 0) => status = "False"

\* C5 witness: a point on the right edge of a rectangle of two columns, on one
\* of its rows, is reported outside.
C5_Witness ==
    /\ HitTested
    /\ call.rect = Rect(1, 1, 2, 2)
    /\ call.event.column = 3
    /\ call.event.row = 1
    /\ status = "False"

(***************************************************************************)
(* Claims about draw and on_event, under Spec.                             *)
(***************************************************************************)
Drawn == call.op = "draw" /\ status = "Drawn"

\* C6 as stated: the gap is shown only if show_gap, and at any height below
\* TABLE_GAP_HEIGHT_LIMIT it is suppressed, whatever the row count.
C6_GapSuppressedBelowLimit ==
    Drawn =>
        /\ table_gap = 1 => show_gap
        /\ call.rect.height < TABLE_GAP_HEIGHT_LIMIT => table_gap = 0

\* C6 amended: the gap is shown only if show_gap, and it is suppressed below
\* TABLE_GAP_HEIGHT_LIMIT exactly when the rows of the table and two more
\* lines do not fit the height; in every other case with show_gap it is shown.
\* (state.num_items is rows.len() as draw counted it.)
C6_GapSuppressedWhenRowsDoNotFit ==
    Drawn =>
        /\ table_gap \in {0, 1}
        /\ table_gap = 1 <=>
              /\ show_gap
              /\ ~(/\ call.rect.height < TABLE_GAP_HEIGHT_LIMIT
                   /\ state.num_items + 2 > call.rect.height)

\* C6 witness: a table of one row drawn with show_gap at height 3, below the
\* limit, has its gap.
C6_Witness ==
    /\ Drawn
    /\ show_gap
    /\ call.rect.height = 3
    /\ state.num_items = 1
    /\ table_gap = 1

IsMouse(event, kinds) == event.type = "Mouse" /\ event.kind \in kinds

Counted == SetNumItems(state, Len(rows))

\* The column a click at screen column x falls in, by the resolved widths.
ClickedColumn(x, rect) ==
    CHOOSE c \in 0..Len(column_widths) :
        \/ /\ c < Len(column_widths)
           /\ SumSeq(SubSeq(column_widths, 1, c)) <= x - rect.x
           /\ x - rect.x < SumSeq(SubSeq(column_widths, 1, c + 1))
        \/ /\ c = Len(column_widths)
           /\ x - rect.x >= SumSeq(column_widths)

\* C7: a left click inside the bounds on the header row sorts by the clicked
\* column when the table is sortable (on_event returns, having taken the
\* click), and is Ignored with nothing changed when it is unsortable.
C7_HeaderClickSorts ==
    \A rect \in Rects, event \in Events :
        (/\ status # "Panic"
         /\ IsMouse(event, {"DownLeft"})
         /\ DoesMouseIntersectBounds(event, rect)
         /\ event.row = rect.y)
            => LET outcome == OnEventOutcome(rect, event)
               IN IF sortable.is
                  THEN /\ outcome.status = "Captured"
                       /\ ClickedColumn(event.column, rect) \in 0..Len(column_widths)
                  ELSE /\ outcome.status = "Ignored"
                       /\ outcome.state = Counted
                       /\ outcome.messages = messages

\* C8: with on_selected_click configured, a left click on the body row that
\* is already the highlighted row appends on_selected_click's message for
\* that row to the queue, and no on_select message.
C8_SelectedClickActivates ==
    \A rect \in Rects, event \in Events :
        LET outcome == OnEventOutcome(rect, event)
        IN (/\ status # "Panic"
            /\ on_selected_click
            /\ IsMouse(event, {"DownLeft"})
            /\ DoesMouseIntersectBounds(event, rect)
            /\ event.row - rect.y > table_gap
            /\ outcome.status = "Captured"
            /\ outcome.state.current_index = Counted.current_index)
               => outcome.messages =
                      Append(messages, OnSelectedClickMessage(Counted.current_index))

Clamp(index, num_items) == Max(Min(index, num_items - 1), 0)

\* The highlighted index an event finds: the persisted one, within the rows
\* the table holds.
Highlighted == Clamp(state.current_index, Len(rows))

\* C9: a ScrollDown (ScrollUp) inside the bounds moves the highlighted index
\* one row down (up), clamped to [0, row_count - 1]; with on_select registered
\* its message for the resulting index is appended to the queue.
C9_ScrollMovesOneRow ==
    \A rect \in Rects, event \in Events :
        (/\ status # "Panic"
         /\ IsMouse(event, {"ScrollDown", "ScrollUp"})
         /\ DoesMouseIntersectBounds(event, rect))
            => LET outcome == OnEventOutcome(rect, event)
                   to == IF event.kind = "ScrollDown"
                         THEN Clamp(Highlighted + 1, Len(rows))
                         ELSE Clamp(Highlighted - 1, Len(rows))
               IN /\ outcome.state.current_index = to
                  /\ outcome.status # "Panic"
                  /\ outcome.messages =
                        IF on_select THEN Append(messages, OnSelectMessage(to)) ELSE messages

\* C9 witness: with on_select registered a scroll has moved the highlight to
\* row 1 and its message is the last of the queue.
C9_Witness ==
    /\ call.op = "on_event"
    /\ status = "Captured"
    /\ on_select
    /\ state.current_index = 1
    /\ messages # <<>>
    /\ messages[Len(messages)] = OnSelectMessage(1)

\* C10: a call of on_event appends no message or one message at the end of
\* the queue and leaves the messages already in it in place.
C10_AppendsAtMostOne ==
    [][call'.op = "on_event" =>
          \/ messages' = messages
          \/ /\ Len(messages') = Len(messages) + 1
             /\ SubSeq(messages', 1, Len(messages)) = messages]_vars

\* C10 witness: two events have each appended their message: a scroll down to
\* row 1, then a scroll up to row 0.
C10_Witness ==
    /\ call.op = "on_event"
    /\ messages = <<OnSelectMessage(1), OnSelectMessage(0)>>

\* A key press, or a mouse event that is not inside the rectangle.
NotForTable(event, rect) ==
    event.type = "Keyboard" \/ ~DoesMouseIntersectBounds(event, rect)

C12_ClickSelectsRow ==
    Drawn =>
        \A event \in Events :
            (IsMouse(event, {"DownLeft"}) /\ DoesMouseIntersectBounds(event, call.rect))
                => LET y == event.row - call.rect.y
                       outcome == OnEventOutcome(call.rect, event)
                       clicked == state.start + (y - table_gap)
                   IN /\ (y > table_gap /\ clicked < state.num_items)
                             => outcome.state.current_index = clicked
                      /\ (0 < y /\ y <= table_gap) => outcome.status = "Ignored"

\* The rows of the body draw had room for: the height without the header
\* and the gap.
WindowHeight == Max(call.rect.height - 1 - table_gap, 0)

\* C13 as stated: after a draw, with the highlighted index h in [0, n) and a
\* window height w <= n, the window's start satisfies start <= h < start + w
\* and 0 <= start <= n - w.
C13_WindowHoldsHighlight ==
    Drawn =>
        LET n == state.num_items
            h == state.current_index
            w == WindowHeight
        IN (h \in 0..(n - 1) /\ w <= n)
              => /\ state.start <= h /\ h < state.start + w
                 /\ 0 <= state.start /\ state.start <= n - w

\* C13 amended: the same for a window of at least one row, 1 <= w <= n.
C13_WindowOfOneRowOrMore ==
    Drawn =>
        LET n == state.num_items
            h == state.current_index
            w == WindowHeight
        IN (h \in 0..(n - 1) /\ 1 <= w /\ w <= n)
              => /\ state.start <= h /\ h < state.start + w
                 /\ 0 <= state.start /\ state.start <= n - w

\* C13 witness: a table of two rows with row 1 highlighted, drawn with room
\* for one row: the window starts at row 1.
C13_Witness ==
    /\ Drawn
    /\ state.num_items = 2
    /\ WindowHeight = 1
    /\ state.current_index = 1
    /\ state.start = 1

\* C15: on_event returns a Status for every event and every table, a left
\* click on the header row of a sortable table included, and the relative row
\* of a click inside the bounds is computed without underflow.
C15_OnEventReturnsStatus ==
    \A rect \in Rects, event \in Events :
        status # "Panic"
            => /\ OnEventOutcome(rect, event).status \in {"Ignored", "Captured"}
               /\ (IsMouse(event, {"DownLeft"}) /\ DoesMouseIntersectBounds(event, rect))
                      => Sub16(event.row, Top(rect)) = event.row - Top(rect)

\* C16: for every row count and every height, draw returns and its row range
\* [start, end) satisfies start <= end <= n and end - start <= max(height - 1
\* - gap, 0); without rows or at height 0 the range is empty.
C16_RangeWithinRows ==
    \A rect \in Rects :
        status # "Panic"
            => \A outcome \in DrawOutcome(rect) :
                  /\ outcome.status = "Drawn"
                  /\ outcome.start <= outcome.end
                  /\ outcome.end <= Len(rows)
                  /\ outcome.end - outcome.start
                         <= Max(rect.height - 1 - outcome.table_gap, 0)
                  /\ (Len(rows) = 0 \/ rect.height = 0) => outcome.end = outcome.start

\* C16 witness: a table of two rows has been drawn at height 2 without a gap,
\* with room for one row, and one row was taken for the frame.
C16_Witness ==
    /\ Drawn
    /\ state.num_items = 2
    /\ call.rect.height = 2
    /\ table_gap = 0
    /\ Len(rows) = 1

\* C20: every draw and every on_event writes the number of rows the table
\* value holds to the state as its item count, and a draw leaves the value
\* with the rows it had, so that the next draw or on_event on that value
\* writes the count of the rows given to rows().
C20_DrawKeepsRowCount ==
    [][/\ call'.op \in {"draw", "on_event"} => state'.num_items = Len(rows)
       /\ call'.op = "draw" => Len(rows') = Len(rows)]_vars

\* C21: a left click inside the bounds at relative row y > 0 is translated
\* with the gap draw decides for the same rect, rows and show_gap, on a value
\* that has been drawn and on one that has not: on the gap row it is Ignored
\* and leaves the highlight, below it set_visual_index gets y less that gap.
C21_ClickUsesDrawGap ==
    \A rect \in Rects, event \in Events :
        (/\ status # "Panic"
         /\ IsMouse(event, {"DownLeft"})
         /\ DoesMouseIntersectBounds(event, rect)
         /\ event.row > rect.y)
            => LET y == event.row - rect.y
                   gap == TableGap(show_gap, Len(rows), rect.height)
                   outcome == OnEventOutcome(rect, event)
                   expected == IF y > gap
                               THEN SetVisualIndex(Counted, y - gap)
                               ELSE [state |-> Counted, status |-> "Ignored"]
               IN /\ outcome.state = expected.state
                  /\ outcome.status = expected.status

(***************************************************************************)
(* Claims about the bounds of a component, under SpecBounds.               *)
(***************************************************************************)
\* C14: for a component with the default border_bounds and set_border_bounds,
\* after any sequence of set_bounds and set_border_bounds calls border_bounds()
\* equals bounds() and both are the rectangle of the most recent of them.
C14_BorderBoundsAreBounds ==
    /\ border_bounds = component_bounds
    /\ call.op \in {"set_bounds", "set_border_bounds"}
           => (component_bounds = call.rect /\ border_bounds = call.rect)
    /\ call.op \in {"bounds", "border_bounds"} => call.rect = component_bounds

\* C14 witness: set_border_bounds has been called with a rectangle of two
\* columns and two rows, and bounds() and border_bounds() are that rectangle.
C14_Witness ==
    /\ call.op = "set_border_bounds"
    /\ call.rect = Rect(1, 1, 2, 2)
    /\ component_bounds = Rect(1, 1, 2, 2)
    /\ border_bounds = Rect(1, 1, 2, 2)

====
